---- MODULE Spec2Model ----
(***************************************************************************)
(* Go Fish simulator: the card library (gofish/cards.py), the players and  *)
(* their strategies (gofish/player.py) and the game engine                 *)
(* (gofish/game.py), as a state machine.                                   *)
(*                                                                         *)
(* A player is identified by its 1-based position in GoFishGame.players;   *)
(* that position also stands for its (unique) name.  A rank is a position  *)
(* in Card.RANKS, a suit a position in Card.SUITS.  The deck is cut down   *)
(* to the first NumRanks ranks, so that a deck holds NumRanks * NumSuits   *)
(* cards; everything else is as in the source.                             *)
(***************************************************************************)
EXTENDS Integers, Sequences, FiniteSets, TLC

\* ------------------------------------------------------------------ bounds
\* Number of ranks of Card.RANKS in play (13 in the source).
NumRanks == 2
\* Largest number of players handed to GoFishGame.
MaxPlayers == 3
\* Largest --initial-cards value.
MaxInitialCards == 4
\* Largest cut applied by a shuffle outcome.
MaxCut == 0
\* Cap on turn_count, an unbounded integer in the source.
MaxTurns == 5

\* Largest size of a knowledge store built by direct update_knowledge calls
\* (one per opponent entered plus one per rank recorded).
MaxKnown == 4

\* --------------------------------------------------------------- constants
\* len(Card.SUITS)
NumSuits == 4
\* a book is 4 cards of one rank (find_books: count == 4)
BookSize == 4
\* GoFishGame requires at least 2 players
MinPlayers == 2

RANKS == 1..NumRanks
SUITS == 1..NumSuits
\* None, as returned by choose_rank_to_ask_for on an empty hand
NoRank == 0

Card(rank, suit) == [rank |-> rank, suit |-> suit]
AllCards == {Card(r, s) : r \in RANKS, s \in SUITS}
DeckSize == NumRanks * NumSuits

Min(a, b) == IF a <= b THEN a ELSE b

\* ------------------------------------------------------------------- Deck
\* Deck.__init__ without cards: suit-major, rank-minor.
NewDeck == [i \in 1..DeckSize |->
              Card(((i - 1) % NumRanks) + 1, ((i - 1) \div NumRanks) + 1)]

\* is_empty as it would be if it never reported an empty deck
is_empty_never(cards) == FALSE

\* Deck.is_empty
is_empty(cards) == Len(cards) = 0

\* draw as it would be with self.cards[0] in place of self.cards.pop(0)
draw_without_pop(cards) ==
  IF cards = <<>>
    THEN [card |-> <<>>, cards |-> cards]
    ELSE [card |-> <<Head(cards)>>, cards |-> cards]

\* draw as it would be with self.cards.pop() in place of self.cards.pop(0)
draw_from_back(cards) ==
  IF cards = <<>>
    THEN [card |-> <<>>, cards |-> cards]
    ELSE [card |-> <<cards[Len(cards)]>>,
          cards |-> SubSeq(cards, 1, Len(cards) - 1)]

\* Deck.draw: the popped card (or none) and the cards left.
draw(cards) ==
  IF cards = <<>>
    THEN [card |-> <<>>, cards |-> cards]
    ELSE [card |-> <<Head(cards)>>, cards |-> Tail(cards)]

\* the loop of draw_multiple as it would be with drawn_cards.insert(0, card)
RECURSIVE draw_loop_reversed(_, _, _)
draw_loop_reversed(cards, todo, drawn_cards) ==
  IF todo <= 0
    THEN [drawn |-> drawn_cards, cards |-> cards]
    ELSE LET d == draw(cards)
         IN draw_loop_reversed(d.cards, todo - 1, d.card \o drawn_cards)

\* Deck.draw_multiple: range(min(count, len)) draws, one card at a time.
RECURSIVE draw_loop(_, _, _)
draw_loop(cards, todo, drawn_cards) ==
  IF todo <= 0
    THEN [drawn |-> drawn_cards, cards |-> cards]
    ELSE LET d == draw(cards)
         IN draw_loop(d.cards, todo - 1, drawn_cards \o d.card)

draw_multiple(cards, count) == draw_loop(cards, Min(count, Len(cards)), <<>>)

\* Outcomes of random.shuffle considered: the deck dealt into s piles that
\* are stacked again, then cut at k.
Piles(cards, s) ==
  LET n == Len(cards)
      key(i) == ((i - 1) % s) * n + i
      RECURSIVE Sorted(_)
      Sorted(S) == IF S = {} THEN <<>>
                   ELSE LET m == CHOOSE x \in S : \A y \in S : key(x) <= key(y)
                        IN <<m>> \o Sorted(S \ {m})
      order == Sorted(1..n)
  IN [i \in 1..n |-> cards[order[i]]]

Cut(cards, k) ==
  LET n == Len(cards)
  IN IF n = 0 THEN cards ELSE [i \in 1..n |-> cards[((i - 1 + k) % n) + 1]]

shuffle(cards) == {Cut(Piles(cards, s), k) : s \in 1..NumRanks, k \in 0..MaxCut}

\* ------------------------------------------------------------------- Hand
\* number of cards of a rank in a list of cards
CountRank(cards, rank) ==
  Cardinality({i \in 1..Len(cards) : cards[i].rank = rank})

\* remove_card as it would be if no card compared equal (Card without __eq__
\* and a card rebuilt by value): nothing is removed
remove_card_not_found(cards, card) == cards

\* Hand.remove_card: the first structurally equal card is popped.
remove_card(cards, card) ==
  LET found == {i \in 1..Len(cards) : cards[i] = card}
  IN IF found = {} THEN cards
     ELSE LET i == CHOOSE k \in found : \A j \in found : k <= j
          IN SubSeq(cards, 1, i - 1) \o SubSeq(cards, i + 1, Len(cards))

\* Hand._partition_cards(lambda c: c.rank != rank)
partition_cards(cards, rank) ==
  [matching |-> SelectSeq(cards, LAMBDA c : c.rank # rank),
   non_matching |-> SelectSeq(cards, LAMBDA c : c.rank = rank)]

\* remove_cards_of_rank with the two results of _partition_cards swapped
remove_cards_of_rank_swapped(cards, rank) ==
  partition_cards(cards, rank).non_matching

\* Hand.remove_cards_of_rank: the cards kept
remove_cards_of_rank(cards, rank) == partition_cards(cards, rank).matching

\* Hand.has_rank
has_rank(cards, rank) == \E i \in 1..Len(cards) : cards[i].rank = rank

\* Hand.get_ranks
get_ranks(cards) == {cards[i].rank : i \in 1..Len(cards)}

\* keys of the rank_counts dict built by one pass over the cards: the ranks
\* in the order of their first card
rank_keys(cards) ==
  LET first == SelectSeq([i \in 1..Len(cards) |-> i],
                         LAMBDA i : \A j \in 1..(i - 1) :
                                      cards[j].rank # cards[i].rank)
  IN [k \in 1..Len(first) |-> cards[first[k]].rank]

\* find_books as it would be if no count ever reached 4
find_books_none(cards) == <<>>

\* Hand.find_books
find_books(cards) ==
  SelectSeq(rank_keys(cards), LAMBDA r : CountRank(cards, r) = BookSize)

\* Hand.remove_books: for each rank of find_books (computed once), its cards
\* are collected as a book and filtered out of the hand.
RECURSIVE remove_books_loop(_, _, _)
remove_books_loop(ranks, cards, bks) ==
  IF ranks = <<>> THEN [hand |-> cards, books |-> bks]
  ELSE remove_books_loop(
         Tail(ranks),
         SelectSeq(cards, LAMBDA c : c.rank # Head(ranks)),
         Append(bks, SelectSeq(cards, LAMBDA c : c.rank = Head(ranks))))

remove_books(cards) == remove_books_loop(find_books(cards), cards, <<>>)

\* ----------------------------------------------------------------- Player
\* Player.check_for_books: the hand and book list afterwards, and the ranks found
RECURSIVE book_loop(_, _, _)
book_loop(new_books, cards, bks) ==
  IF new_books = <<>> THEN [hand |-> cards, books |-> bks]
  ELSE book_loop(Tail(new_books),
                 remove_cards_of_rank(cards, Head(new_books)),
                 Append(bks, Head(new_books)))

\* check_for_books as it would be without the remove_cards_of_rank call
check_for_books_keeping_cards(cards, bks) ==
  [hand |-> cards, books |-> bks \o find_books(cards),
   new_books |-> find_books(cards)]

check_for_books(cards, bks) ==
  LET new_books == find_books(cards)
      r == book_loop(new_books, cards, bks)
  IN [hand |-> r.hand, books |-> r.books, new_books |-> new_books]

\* has_cards as it would be with "> 1"
has_cards_more_than_one(cards) == Len(cards) > 1

\* Player.has_cards
has_cards(cards) == Len(cards) > 0

\* Player.get_score
get_score(bks) == Len(bks)

\* update_knowledge as it would be without its "elif" branch: a rank once
\* recorded is never cleared
update_knowledge_never_forgets(known, player_name, rank, has_card) ==
  LET k0 == IF player_name \in DOMAIN known THEN known
            ELSE [q \in DOMAIN known \cup {player_name} |->
                    IF q \in DOMAIN known THEN known[q] ELSE {}]
  IN IF has_card THEN [k0 EXCEPT ![player_name] = @ \cup {rank}] ELSE k0

\* Player.update_knowledge on one player's known_cards dict
update_knowledge(known, player_name, rank, has_card) ==
  LET k0 == IF player_name \in DOMAIN known THEN known
            ELSE [q \in DOMAIN known \cup {player_name} |->
                    IF q \in DOMAIN known THEN known[q] ELSE {}]
  IN IF has_card
       THEN [k0 EXCEPT ![player_name] = @ \cup {rank}]
       ELSE IF rank \in k0[player_name]
              THEN [k0 EXCEPT ![player_name] = @ \ {rank}]
              ELSE k0

\* MemoryPlayer.record_ask on one player's asked_ranks dict
record_ask(asked, player_name, rank) ==
  LET a0 == IF player_name \in DOMAIN asked THEN asked
            ELSE [q \in DOMAIN asked \cup {player_name} |->
                    IF q \in DOMAIN asked THEN asked[q] ELSE {}]
  IN [a0 EXCEPT ![player_name] = @ \cup {rank}]


\* ------------------------------------------------------------- strategies
\* sorted(rank_counts.keys(), key=count, reverse=True)[0]: the sort is stable,
\* so the first key (in insertion order) with the largest count comes first.
\* the sort as it would be if equal counts came out in reverse order
\* (ascending sort, then reversed): the last key with the largest count
most_held_rank_last_tie(cards) ==
  LET keys == rank_keys(cards)
      best == CHOOSE i \in 1..Len(keys) :
                /\ \A j \in 1..Len(keys) :
                     CountRank(cards, keys[j]) <= CountRank(cards, keys[i])
                /\ \A j \in (i + 1)..Len(keys) :
                     CountRank(cards, keys[j]) < CountRank(cards, keys[i])
  IN keys[best]

most_held_rank(cards) ==
  LET keys == rank_keys(cards)
      best == CHOOSE i \in 1..Len(keys) :
                /\ \A j \in 1..Len(keys) :
                     CountRank(cards, keys[j]) <= CountRank(cards, keys[i])
                /\ \A j \in 1..(i - 1) :
                     CountRank(cards, keys[j]) < CountRank(cards, keys[i])
  IN keys[best]

\* choose_rank_to_ask_for as it would be choosing among Card.RANKS
choose_any_rank(kind, cards) == RANKS

\* choose_rank_to_ask_for of each Player subclass: the values it may return
choose_rank_to_ask_for(kind, cards) ==
  IF kind = "random"
    THEN (IF get_ranks(cards) = {} THEN {NoRank} ELSE get_ranks(cards))
    ELSE (IF ~has_cards(cards) THEN {NoRank} ELSE {most_held_rank(cards)})

\* random.choice(player_names)
random_choice(player_names) == {player_names[i] : i \in 1..Len(player_names)}

\* the loop as it would be if it kept the last match instead of returning
\* at the first
last_recorded(player_names, store, rank) ==
  LET hits == {i \in 1..Len(player_names) :
                 /\ player_names[i] \in DOMAIN store
                 /\ rank \in store[player_names[i]]}
  IN IF hits = {} THEN {}
     ELSE {player_names[CHOOSE i \in hits : \A j \in hits : i >= j]}

\* the "for player_name in player_names: if ... return player_name" loop of
\* SmartPlayer / MemoryPlayer.choose_player_to_ask over a dict name -> ranks
first_recorded(player_names, store, rank) ==
  LET hits == {i \in 1..Len(player_names) :
                 /\ player_names[i] \in DOMAIN store
                 /\ rank \in store[player_names[i]]}
  IN IF hits = {} THEN {}
     ELSE {player_names[CHOOSE i \in hits : \A j \in hits : i <= j]}

\* choose_player_to_ask of each Player subclass: the values it may return
choose_player_to_ask(kind, cards, known, asked, player_names) ==
  IF kind = "random" THEN random_choice(player_names)
  ELSE LET rank_to_ask == CHOOSE r \in choose_rank_to_ask_for(kind, cards) : TRUE
           store == IF kind = "smart" THEN known ELSE asked
           found == first_recorded(player_names, store, rank_to_ask)
       IN IF found # {} THEN found ELSE random_choice(player_names)

\* ------------------------------------------------------------------ state
VARIABLES
  pc,                 \* "new", "error", "ready", "playing", "done"
  players,            \* GoFishGame.players: the strategy of each player
  initial_cards,      \* GoFishGame.initial_cards
  deck,               \* GoFishGame.deck.cards
  hand,               \* Player.hand.cards of each player
  books,              \* Player.books of each player
  known_cards,        \* Player.known_cards of each player
  asked_ranks,        \* MemoryPlayer.asked_ranks of each player
  current_player_idx, \* GoFishGame.current_player_idx (0-based)
  game_over,          \* GoFishGame.game_over
  turn_count,         \* GoFishGame.turn_count
  event,              \* the last call made (play_turn in a game) and its return value
  winners             \* the list play_game returned

vars == <<pc, players, initial_cards, deck, hand, books, known_cards,
          asked_ranks, current_player_idx, game_over, turn_count, event,
          winners>>

\* the AI player classes: RandomPlayer, SmartPlayer, MemoryPlayer
NumKinds == 3

\* --player-types lists handed to create_players (the mix of test_basic_game)
PlayerTypes == {<<"random", "smart", "memory">>}

\* main.create_players: args.players AI players, the types cycled
create_players(n, player_types) ==
  [i \in 1..n |-> player_types[((i - 1) % Len(player_types)) + 1]]

PlayerLists == {create_players(n, t) : n \in 0..MaxPlayers, t \in PlayerTypes}

InitialCards == 0..MaxInitialCards

Seats == 1..Len(players)

\* event: kind is the branch play_turn took, asker and target are <<>> or
\* <<player>>, rank is the rank asked for, ret is the value returned.
NoEvent == [kind |-> "none", asker |-> <<>>, target |-> <<>>,
            rank |-> NoRank, ret |-> TRUE]

\* The players exist (create_players), the game does not yet.
Init ==
  /\ pc = "new"
  /\ players \in PlayerLists
  /\ initial_cards \in InitialCards
  /\ deck = <<>>
  /\ hand = [p \in 1..Len(players) |-> <<>>]
  /\ books = [p \in 1..Len(players) |-> <<>>]
  /\ known_cards = [p \in 1..Len(players) |-> <<>>]
  /\ asked_ranks = [p \in 1..Len(players) |-> <<>>]
  /\ current_player_idx = 0
  /\ game_over = FALSE
  /\ turn_count = 0
  /\ event = NoEvent
  /\ winners = <<>>

\* the constructor's check as it would be with "< 1"
too_few_players_below_one(ps) == Len(ps) < MinPlayers - 1

\* "if len(players) < 2" of GoFishGame.__init__
too_few_players(ps) == Len(ps) < MinPlayers

\* GoFishGame.__init__: raises ValueError, or sets the fields of the game
Construct ==
  /\ pc = "new"
  /\ IF too_few_players(players)
       THEN /\ pc' = "error"
            /\ UNCHANGED deck
       ELSE /\ pc' = "ready"
            /\ deck' = NewDeck
  /\ UNCHANGED <<players, initial_cards, hand, books, known_cards, asked_ranks,
                 current_player_idx, game_over, turn_count, event, winners>>

\* check_game_over with its test inverted ("if not player.has_cards()")
all_cards_in_books_inverted(h) == \A p \in DOMAIN h : Len(h[p]) > 0

\* check_game_over as its comment might be read: over only once the deck
\* is used up as well
all_cards_in_books_and_deck_empty(h) ==
  (\A p \in DOMAIN h : Len(h[p]) = 0) /\ Len(deck) = 0

\* GoFishGame.check_game_over: whether no player has cards
all_cards_in_books(h) == \A p \in DOMAIN h : ~has_cards(h[p])

\* the dealing loop as it would be dealing one card to each player in turn,
\* initial_cards times round the table
deal_round_robin(p, cards, h, b) ==
  LET n == Len(players)
      total == Min(n * initial_cards, Len(cards))
      got(i) == [j \in 1..Cardinality({k \in 1..total : (k - 1) % n = i - 1})
                   |-> cards[(j - 1) * n + i]]
      c(i) == check_for_books(h[i] \o got(i), b[i])
  IN [deck |-> SubSeq(cards, total + 1, Len(cards)),
      hand |-> [i \in 1..n |-> c(i).hand],
      books |-> [i \in 1..n |-> c(i).books]]

\* the dealing loop of GoFishGame.setup, from player p on
RECURSIVE deal(_, _, _, _)
deal(p, cards, h, b) ==
  IF p > Len(players) THEN [deck |-> cards, hand |-> h, books |-> b]
  ELSE LET d == draw_multiple(cards, initial_cards)
           c == check_for_books(h[p] \o d.drawn, b[p])
       IN deal(p + 1, d.cards, [h EXCEPT ![p] = c.hand],
               [b EXCEPT ![p] = c.books])

\* GoFishGame.setup
Setup ==
  /\ pc = "ready"
  /\ \E shuffled \in shuffle(deck) :
       LET r == deal(1, shuffled, hand, books)
       IN /\ deck' = r.deck
          /\ hand' = r.hand
          /\ books' = r.books
  /\ pc' = "playing"
  /\ UNCHANGED <<players, initial_cards, known_cards, asked_ranks,
                 current_player_idx, game_over, turn_count, event, winners>>

\* advance_turn skipping a player
advance_turn_by_two(idx) == (idx + 2) % Len(players)

\* advance_turn leaving the index where it is
advance_turn_stays(idx) == idx % Len(players)

\* GoFishGame.advance_turn
advance_turn(idx) == (idx + 1) % Len(players)

\* the transfer as it would be in the other direction: the asker hands its
\* cards of the rank to the player asked
transfer_reversed(matching_cards, target_cards, current_cards) ==
  IF matching_cards = <<>>
    THEN [target |-> target_cards, current |-> current_cards]
    ELSE [target |-> target_cards \o
                       SelectSeq(current_cards,
                                 LAMBDA c : c.rank = Head(matching_cards).rank),
          current |-> SelectSeq(current_cards,
                                LAMBDA c : c.rank # Head(matching_cards).rank)]

\* the transfer as it would be if only the first matching card were handed over
transfer_first_card(matching_cards, target_cards, current_cards) ==
  IF matching_cards = <<>>
    THEN [target |-> target_cards, current |-> current_cards]
    ELSE [target |-> remove_card(target_cards, Head(matching_cards)),
          current |-> Append(current_cards, Head(matching_cards))]

\* "for card in matching_cards: target.remove_card(card); current.add_card(card)"
RECURSIVE transfer(_, _, _)
transfer(matching_cards, target_cards, current_cards) ==
  IF matching_cards = <<>>
    THEN [target |-> target_cards, current |-> current_cards]
    ELSE transfer(Tail(matching_cards),
                  remove_card(target_cards, Head(matching_cards)),
                  Append(current_cards, Head(matching_cards)))

\* The end of a play_turn call that goes through check_game_over: the fields
\* as the call leaves them, the turn advanced or not, and the value returned.
Return(h, b, d, k, advance, kind, target, rank) ==
  /\ hand' = h
  /\ books' = b
  /\ deck' = d
  /\ known_cards' = k
  /\ current_player_idx' =
       IF advance THEN advance_turn(current_player_idx) ELSE current_player_idx
  /\ game_over' = all_cards_in_books(h)
  /\ event' = [kind |-> kind, asker |-> <<current_player_idx + 1>>,
               target |-> target, rank |-> rank,
               ret |-> ~all_cards_in_books(h)]

\* The ask of play_turn (game.py 94-174), with the hands, books and deck as
\* the empty-hand draw left them.  (Intermediate values are bound with \E
\* over a one-element set: each is computed once.)
Ask(cur, h0, b0, d0, other_players) ==
  \E target \in choose_player_to_ask(players[cur], h0[cur], known_cards[cur],
                                     asked_ranks[cur], other_players) :
  \E rank \in choose_rank_to_ask_for(players[cur], h0[cur]) :
    IF rank = NoRank
      THEN Return(h0, b0, d0, known_cards, TRUE, "norank", <<target>>, rank)
      ELSE
        \E matching_cards \in {SelectSeq(h0[target], LAMBDA c : c.rank = rank)} :
          IF matching_cards # <<>>
            THEN \E k1 \in {update_knowledge(known_cards[cur], target, rank, TRUE)} :
                 \E t \in {transfer(matching_cards, h0[target], h0[cur])} :
                 \E c \in {check_for_books(t.current, b0[cur])} :
                 \E h1 \in {[h0 EXCEPT ![target] = t.target, ![cur] = c.hand]} :
                 \E b1 \in {[b0 EXCEPT ![cur] = c.books]} :
                 \E k \in {[known_cards EXCEPT ![cur] = k1]} :
                   Return(h1, b1, d0, k, FALSE, "hit", <<target>>, rank)
            ELSE \E k1 \in {update_knowledge(known_cards[cur], target, rank, FALSE)} :
                 \E d \in {IF ~is_empty(d0) THEN draw(d0)
                           ELSE [card |-> <<>>, cards |-> d0]} :
                 \E c \in {check_for_books(h0[cur] \o d.card, b0[cur])} :
                 \E match \in {d.card # <<>> /\ d.card[1].rank = rank} :
                 \E h1 \in {[h0 EXCEPT ![cur] = c.hand]} :
                 \E b1 \in {[b0 EXCEPT ![cur] = c.books]} :
                 \E k \in {[known_cards EXCEPT ![cur] = k1]} :
                   Return(h1, b1, d.cards, k, ~match,
                          IF match THEN "match" ELSE "miss", <<target>>, rank)

\* play_turn as it would be if it told every other MemoryPlayer of the ask
\* (record_ask(asker, rank) on each) once a rank had been asked for
asks_recorded_by_memory_players(asked, ev) ==
  IF ev.asker = <<>> \/ ev.rank = NoRank THEN asked
  ELSE [p \in DOMAIN asked |->
          IF players[p] = "memory" /\ p # ev.asker[1]
            THEN record_ask(asked[p], ev.asker[1], ev.rank)
            ELSE asked[p]]

\* The asked_ranks dicts after the play_turn call that ev describes: play_turn
\* calls update_knowledge on the current player and record_ask on nobody.
asks_recorded(asked, ev) == asked

\* play_turn without its early return
already_over_ignored == FALSE

\* "if self.game_over: return False" at the head of play_turn
already_over == game_over

\* GoFishGame.play_turn.  counted: whether turn_count is kept (it is written
\* and printed, never read by the rules).
PlayTurnBody(counted) ==
  /\ pc \in {"playing", "done"}
  /\ IF already_over
       THEN /\ event' = [kind |-> "over", asker |-> <<>>,
                         target |-> <<>>, rank |-> NoRank, ret |-> FALSE]
            /\ UNCHANGED <<hand, books, deck, known_cards, current_player_idx,
                           game_over, turn_count>>
       ELSE /\ IF counted
                 THEN turn_count < MaxTurns /\ turn_count' = turn_count + 1
                 ELSE turn_count' = turn_count
            /\ \E cur \in {current_player_idx + 1} :
                 IF ~has_cards(hand[cur]) /\ is_empty(deck)
                   THEN Return(hand, books, deck, known_cards, TRUE, "skip",
                               <<>>, NoRank)
                   ELSE
                     \E empty \in {~has_cards(hand[cur])} :
                     \E d \in {IF empty THEN draw(deck)
                               ELSE [card |-> <<>>, cards |-> deck]} :
                     \E c \in {check_for_books(hand[cur] \o d.card, books[cur])} :
                     \E h0 \in {IF empty THEN [hand EXCEPT ![cur] = c.hand]
                                ELSE hand} :
                     \E b0 \in {IF empty THEN [books EXCEPT ![cur] = c.books]
                                ELSE books} :
                     \E other_players \in
                          {SelectSeq([i \in 1..Len(players) |-> i],
                                     LAMBDA q : q # cur)} :
                       IF other_players = <<>>
                         THEN /\ hand' = h0
                              /\ books' = b0
                              /\ deck' = d.cards
                              /\ game_over' = TRUE
                              /\ event' = [kind |-> "alone", asker |-> <<cur>>,
                                           target |-> <<>>,
                                           rank |-> NoRank, ret |-> FALSE]
                              /\ UNCHANGED <<known_cards, current_player_idx>>
                         ELSE Ask(cur, h0, b0, d.cards, other_players)
  /\ asked_ranks' = asks_recorded(asked_ranks, event')
  /\ UNCHANGED <<pc, players, initial_cards, winners>>

PlayTurn == PlayTurnBody(TRUE)

\* get_winner as it would be returning the first player with the best score
get_winner_first_only ==
  IF ~game_over THEN <<>>
  ELSE LET best == CHOOSE p \in 1..Len(players) :
                     /\ \A q \in 1..Len(players) : Len(books[q]) <= Len(books[p])
                     /\ \A q \in 1..(p - 1) : Len(books[q]) < Len(books[p])
       IN <<best>>

\* GoFishGame.get_winner
get_winner ==
  IF ~game_over THEN <<>>
  ELSE LET max_score == CHOOSE m \in {get_score(books[p]) : p \in Seats} :
                          \A p \in Seats : get_score(books[p]) <= m
       IN SelectSeq([i \in 1..Len(players) |-> i],
                    LAMBDA p : get_score(books[p]) = max_score)

\* GoFishGame.play_game once "while self.play_turn()" has seen False
PlayGameReturn ==
  /\ pc = "playing"
  /\ event.kind # "none"
  /\ ~event.ret
  /\ winners' = get_winner
  /\ pc' = "done"
  /\ UNCHANGED <<players, initial_cards, deck, hand, books, known_cards,
                 asked_ranks, current_player_idx, game_over, turn_count, event>>

Next == Construct \/ Setup \/ PlayTurn \/ PlayGameReturn

Spec == Init /\ [][Next]_vars


\* play_game with turn_count left out: runs that never end are then cycles
\* of finitely many states.  The loop "while self.play_turn(): pass" makes
\* the next call whenever the last one returned True, so play_turn is taken
\* again and again for as long as it can be.
PlayTurnUncounted == PlayTurnBody(FALSE)

NextLive == Construct \/ Setup \/ PlayTurnUncounted \/ PlayGameReturn

LiveSpec ==
  /\ Init
  /\ [][NextLive]_vars
  /\ WF_vars(PlayTurnUncounted)


\* ------------------------------------------------- the card library alone
\* A Deck and a Player used without a game, as test_card_functionality and
\* test_player_strategies do: "deck = Deck(); deck.shuffle()", then calls on
\* the deck and on the player's hand.  deck is that Deck's cards, hand[1] and
\* books[1] are the Player's; event is the last call, its argument and the
\* value it returned.
CardsInit ==
  /\ pc = "cards"
  /\ players = <<"random">>
  /\ initial_cards = 0
  /\ deck \in shuffle(NewDeck)
  /\ hand = <<<<>>>>
  /\ books = <<<<>>>>
  /\ known_cards = <<<<>>>>
  /\ asked_ranks = <<<<>>>>
  /\ current_player_idx = 0
  /\ game_over = FALSE
  /\ turn_count = 0
  /\ event = [kind |-> "none", arg |-> 0, ret |-> <<>>]
  /\ winners = <<>>

\* "card = deck.draw(); if card: player.add_card(card)"
DeckDraw ==
  /\ pc = "cards"
  /\ \E d \in {draw(deck)} :
       /\ deck' = d.cards
       /\ hand' = [hand EXCEPT ![1] = @ \o d.card]
       /\ event' = [kind |-> "draw", arg |-> 0, ret |-> d.card]
  /\ UNCHANGED <<pc, players, initial_cards, books, known_cards, asked_ranks,
                 current_player_idx, game_over, turn_count, winners>>

\* "cards = deck.draw_multiple(count); player.add_cards(cards)"
DeckDrawMultiple ==
  /\ pc = "cards"
  /\ \E count \in InitialCards :
     \E d \in {draw_multiple(deck, count)} :
       /\ deck' = d.cards
       /\ hand' = [hand EXCEPT ![1] = @ \o d.drawn]
       /\ event' = [kind |-> "draw_multiple", arg |-> count, ret |-> d.drawn]
  /\ UNCHANGED <<pc, players, initial_cards, books, known_cards, asked_ranks,
                 current_player_idx, game_over, turn_count, winners>>

\* "player.check_for_books()"
PlayerCheckForBooks ==
  /\ pc = "cards"
  /\ \E c \in {check_for_books(hand[1], books[1])} :
       /\ hand' = [hand EXCEPT ![1] = c.hand]
       /\ books' = [books EXCEPT ![1] = c.books]
       /\ event' = [kind |-> "check_for_books", arg |-> 0, ret |-> c.new_books]
  /\ UNCHANGED <<pc, players, initial_cards, deck, known_cards, asked_ranks,
                 current_player_idx, game_over, turn_count, winners>>

\* "player.hand.remove_books()"
HandRemoveBooks ==
  /\ pc = "cards"
  /\ \E r \in {remove_books(hand[1])} :
       /\ hand' = [hand EXCEPT ![1] = r.hand]
       /\ event' = [kind |-> "remove_books", arg |-> 0, ret |-> r.books]
  /\ UNCHANGED <<pc, players, initial_cards, deck, books, known_cards,
                 asked_ranks, current_player_idx, game_over, turn_count,
                 winners>>

CardsNext ==
  DeckDraw \/ DeckDrawMultiple \/ PlayerCheckForBooks \/ HandRemoveBooks

CardsSpec == CardsInit /\ [][CardsNext]_vars

\* --------------------------------------------------- the strategies alone
\* A Player used without a game, as test_player_strategies does: a shuffled
\* deck, "cards = deck.draw_multiple(n); player.add_cards(cards)", then calls
\* of update_knowledge, choose_rank_to_ask_for and choose_player_to_ask with
\* a list of opponents' names.
OpponentNames == 1..(MaxPlayers - 1)

\* the lists of names supplied: all opponents, in either order
PlayerNameLists ==
  {[i \in OpponentNames |-> i],
   [i \in OpponentNames |-> MaxPlayers - i]}

StrategyInit ==
  /\ pc = "strategy"
  /\ players \in {<<t[i]>> : t \in PlayerTypes, i \in 1..NumKinds}
  /\ initial_cards \in InitialCards
  /\ \E shuffled \in shuffle(NewDeck) :
     \E d \in {draw_multiple(shuffled, initial_cards)} :
       /\ deck = d.cards
       /\ hand = <<d.drawn>>
  /\ books = <<<<>>>>
  /\ known_cards = <<<<>>>>
  /\ asked_ranks = <<<<>>>>
  /\ current_player_idx = 0
  /\ game_over = FALSE
  /\ turn_count = 0
  /\ event = [kind |-> "none", arg |-> 0, ret |-> 0]
  /\ winners = <<>>

RECURSIVE known_size(_, _)
known_size(known, n) ==
  IF n = 0 THEN 0
  ELSE (IF n \in DOMAIN known THEN 1 + Cardinality(known[n]) ELSE 0)
         + known_size(known, n - 1)

\* "player.update_knowledge(player_name, rank, has_card)"
PlayerUpdateKnowledge ==
  /\ pc = "strategy"
  /\ \E player_name \in OpponentNames, rank \in RANKS, has_card \in BOOLEAN :
     \E k \in {update_knowledge(known_cards[1], player_name, rank, has_card)} :
       /\ known_size(k, MaxPlayers) <= MaxKnown
       /\ known_cards' = [known_cards EXCEPT ![1] = k]
       /\ event' = [kind |-> "update_knowledge", arg |-> 0, ret |-> 0]
  /\ UNCHANGED <<pc, players, initial_cards, deck, hand, books, asked_ranks,
                 current_player_idx, game_over, turn_count, winners>>

\* "rank = player.choose_rank_to_ask_for()"
PlayerChooseRank ==
  /\ pc = "strategy"
  /\ \E rank \in choose_rank_to_ask_for(players[1], hand[1]) :
       event' = [kind |-> "choose_rank_to_ask_for", arg |-> 0, ret |-> rank]
  /\ UNCHANGED <<pc, players, initial_cards, deck, hand, books, known_cards,
                 asked_ranks, current_player_idx, game_over, turn_count,
                 winners>>

\* "target = player.choose_player_to_ask(other_players)"
PlayerChoosePlayer ==
  /\ pc = "strategy"
  /\ \E other_players \in PlayerNameLists :
     \E target \in choose_player_to_ask(players[1], hand[1], known_cards[1],
                                        asked_ranks[1], other_players) :
       event' = [kind |-> "choose_player_to_ask", arg |-> other_players,
                 ret |-> target]
  /\ UNCHANGED <<pc, players, initial_cards, deck, hand, books, known_cards,
                 asked_ranks, current_player_idx, game_over, turn_count,
                 winners>>

StrategyNext ==
  PlayerUpdateKnowledge \/ PlayerChooseRank \/ PlayerChoosePlayer

StrategySpec == StrategyInit /\ [][StrategyNext]_vars

\* ------------------------------------------------- the rank choice alone
\* "deck.shuffle(); player.add_cards(deck.draw_multiple(n))" followed by
\* calls of choose_rank_to_ask_for, with the deck cut anywhere: the hands
\* are the runs of up to MaxInitialCards cards of a piled deck.
AnyCut(cards) ==
  {Cut(Piles(cards, s), k) : s \in 1..NumRanks, k \in 0..(Len(cards) - 1)}

RankInit ==
  /\ pc = "strategy"
  /\ players \in {<<t[i]>> : t \in PlayerTypes, i \in 1..NumKinds}
  /\ initial_cards \in InitialCards
  /\ \E shuffled \in AnyCut(NewDeck) :
     \E d \in {draw_multiple(shuffled, initial_cards)} :
       /\ deck = d.cards
       /\ hand = <<d.drawn>>
  /\ books = <<<<>>>>
  /\ known_cards = <<<<>>>>
  /\ asked_ranks = <<<<>>>>
  /\ current_player_idx = 0
  /\ game_over = FALSE
  /\ turn_count = 0
  /\ event = [kind |-> "none", arg |-> 0, ret |-> 0]
  /\ winners = <<>>

RankNext == PlayerChooseRank

RankSpec == RankInit /\ [][RankNext]_vars

\* ----------------------------------------------------------------- claims
\* the game exists: constructed, set up or played
Started == pc \in {"ready", "playing", "done"}

\* setup has run
Dealt == pc \in {"playing", "done"}

RECURSIVE SumLen(_, _)
SumLen(f, p) == IF p = 0 THEN 0 ELSE Len(f[p]) + SumLen(f, p - 1)

\* C1: the cards in all hands, plus the cards in the deck, plus 4 cards for
\* every book recorded by any player, are the whole deck, in every state of
\* a game (after construction, after setup and after every play_turn call).
C1_CardConservation ==
  Started =>
    SumLen(hand, Len(players)) + Len(deck)
      + 4 * SumLen(books, Len(players)) = NumRanks * NumSuits

\* a turn has been played that left a book, a non-empty hand and a
\* non-empty deck behind
C1_Witness ==
  /\ event.kind \in {"hit", "match", "miss"}
  /\ SumLen(books, Len(players)) > 0
  /\ SumLen(hand, Len(players)) > 0
  /\ deck # <<>>

\* C3: after every play_turn call game_over is true exactly when every hand
\* is empty (whatever the deck holds), and the call returned False exactly
\* when game_over is true.
C3_GameOverIffHandsEmpty ==
  (Dealt /\ event.kind # "none") =>
    /\ game_over <=> (\A p \in Seats : hand[p] = <<>>)
    /\ event.ret <=> ~game_over

\* the game ended on a turn that asked, with cards left in the deck
C3_Witness ==
  /\ game_over
  /\ event.kind \in {"hit", "match"}
  /\ deck # <<>>

\* a play_turn call made while the game is not over (in Spec)
TurnStep == turn_count' = turn_count + 1

\* the hand of the current player when it asks: its hand, or the card it
\* drew because its hand was empty
HandAtAsk ==
  LET cur == current_player_idx + 1
  IN IF hand[cur] = <<>> /\ deck # <<>> THEN <<Head(deck)>> ELSE hand[cur]

\* the deck when the current player asks
DeckAtAsk ==
  LET cur == current_player_idx + 1
  IN IF hand[cur] = <<>> /\ deck # <<>> THEN Tail(deck) ELSE deck

\* the call asked some player for a rank
Asked == event'.target # <<>> /\ event'.rank # NoRank

\* the ask was a hit: the player asked held a card of the rank asked for
WasHit ==
  /\ Asked
  /\ \E i \in 1..Len(hand[event'.target[1]]) :
       hand[event'.target[1]][i].rank = event'.rank

\* the ask was a miss and the card then drawn has the rank asked for
WasSelfDrawMatch ==
  /\ Asked
  /\ ~WasHit
  /\ DeckAtAsk # <<>>
  /\ Head(DeckAtAsk).rank = event'.rank

\* C4: a play_turn call made while the game is not over leaves
\* current_player_idx unchanged after a hit or a self-draw match, and
\* otherwise moves it to (index + 1) mod playerCount; the index stays within
\* 0..playerCount-1.
C4_TurnOwnership ==
  [][TurnStep =>
       /\ current_player_idx' \in 0..(Len(players) - 1)
       /\ IF WasHit \/ WasSelfDrawMatch
            THEN current_player_idx' = current_player_idx
            ELSE current_player_idx' =
                   (current_player_idx + 1) % Len(players)]_vars

\* the last player of the table has just passed the turn on to the first
C4_Witness ==
  /\ event.kind = "miss"
  /\ event.asker = <<Len(players)>>
  /\ current_player_idx = 0
  /\ Len(players) = 3

\* C5: on a hit the player asked loses every card of the rank asked for and
\* keeps its other cards as they were; exactly those cards are appended to
\* the asker's hand, from which the completed books are then taken; the
\* hit draws nothing from the deck.
C5_HitTransfersAll ==
  [][(TurnStep /\ WasHit) =>
       LET cur == current_player_idx + 1
           target == event'.target[1]
           given == SelectSeq(hand[target], LAMBDA c : c.rank = event'.rank)
           full == HandAtAsk \o given
       IN /\ \A i \in 1..Len(hand'[target]) :
               hand'[target][i].rank # event'.rank
          /\ hand'[target] =
               SelectSeq(hand[target], LAMBDA c : c.rank # event'.rank)
          /\ hand'[cur] =
               SelectSeq(full, LAMBDA c : CountRank(full, c.rank) # 4)
          /\ deck' = DeckAtAsk]_vars

\* a hit has just left the asker with three cards of the rank asked for
C5_Witness ==
  /\ event.kind = "hit"
  /\ CountRank(hand[event.asker[1]], event.rank) >= 3

\* C6: play_game returns the players whose number of books is the largest
\* among all players, all of them and in game order; the list is not empty.
C6_Winners ==
  (pc = "done") =>
    /\ game_over
    /\ Len(winners) >= 1
    /\ \A i \in 1..Len(winners) : winners[i] \in Seats
    /\ \A i \in 1..(Len(winners) - 1) : winners[i] < winners[i + 1]
    /\ \A p \in Seats :
         (\E i \in 1..Len(winners) : winners[i] = p)
           <=> (\A q \in Seats : Len(books[q]) <= Len(books[p]))

\* a tie between two of three players
C6_Witness ==
  /\ pc = "done"
  /\ Len(players) = 3
  /\ Len(winners) = 2

\* C7: after setup and after every play_turn call no hand holds 4 or more
\* cards of one rank.
C7_BooksExtractedEagerly ==
  Dealt => \A p \in Seats : \A r \in RANKS : CountRank(hand[p], r) < 4

\* a player has completed a book during play and still holds cards
C7_Witness ==
  /\ event.kind \in {"hit", "match", "miss"}
  /\ books[event.asker[1]] # <<>>
  /\ hand[event.asker[1]] # <<>>

\* number of places a card is in: the deck, the hands, the completed books
RECURSIVE CountCard(_, _)
CountCard(cards, card) ==
  IF cards = <<>> THEN 0
  ELSE (IF Head(cards) = card THEN 1 ELSE 0) + CountCard(Tail(cards), card)

RECURSIVE CountBooked(_, _)
CountBooked(rank, p) ==
  IF p = 0 THEN 0
  ELSE Cardinality({i \in 1..Len(books[p]) : books[p][i] = rank})
         + CountBooked(rank, p - 1)

RECURSIVE CountHeld(_, _)
CountHeld(card, p) ==
  IF p = 0 THEN 0 ELSE CountCard(hand[p], card) + CountHeld(card, p - 1)

\* C8: every card of the deck is in exactly one place: the deck, one hand
\* (once), or a completed book.
C8_NoCardInTwoPlaces ==
  Started =>
    \A card \in AllCards :
      CountCard(deck, card) + CountHeld(card, Len(players))
        + CountBooked(card.rank, Len(players)) = 1

\* cards are in the deck, in two hands and in a book at once
C8_Witness ==
  /\ Dealt
  /\ deck # <<>>
  /\ Cardinality({p \in Seats : hand[p] # <<>>}) >= 2
  /\ \E p \in Seats : books[p] # <<>>

\* C9: once game_over is true, a play_turn call returns False and leaves
\* turn_count, current_player_idx, the deck, the hands, the books and the
\* knowledge stores as they are.
C9_GameOverIsTerminal ==
  [][game_over =>
       /\ game_over'
       /\ ~event'.ret
       /\ UNCHANGED <<turn_count, current_player_idx, deck, hand, books,
                      known_cards, asked_ranks>>]_vars

\* play_turn has been called on a game that was over, with cards in the deck
C9_Witness ==
  /\ game_over
  /\ event.kind = "over"
  /\ deck # <<>>
  /\ turn_count > 1

\* C10: a game of fewer than 2 players is refused at construction and never
\* started: its deck is never built or shuffled, no card is dealt, no turn
\* is played; a game of 2 or more players is never refused.
C10_TooFewPlayersRefused ==
  /\ (Len(players) < 2) =>
       /\ pc \in {"new", "error"}
       /\ deck = <<>>
       /\ \A p \in Seats : hand[p] = <<>> /\ books[p] = <<>>
       /\ turn_count = 0
       /\ event = NoEvent
       /\ winners = <<>>
  /\ (pc = "error") => Len(players) < 2

\* the construction of a one-player game has failed
C10_Witness == pc = "error" /\ Len(players) = 1


\* C2 as claimed: whatever the strategies choose, the loop of play_game
\* reaches game_over.
C2_AlwaysTerminates == (pc = "playing") ~> game_over

\* a miss or a skip with nothing to draw: the call changed no hand, no book
\* and no deck
IdleTurn == event.kind \in {"miss", "skip"} /\ deck = <<>>

\* C2 as amended: with exactly 2 players the loop of play_game reaches
\* game_over whatever the strategies choose; with 3 or more players it
\* reaches game_over unless, from some call on, the deck is empty and every
\* call is a miss or a skip of an empty-handed player.
C2_TerminatesUnlessIdleForever ==
  (pc = "playing") ~> (game_over \/ [](Len(players) >= 3 /\ IdleTurn))

\* a two-player game played to the end: every rank has been booked
C2_Witness ==
  /\ pc = "done"
  /\ Len(players) = 2
  /\ SumLen(books, Len(players)) = NumRanks
  /\ event.kind \in {"hit", "match"}

\* C12: draw_multiple(n) on a deck of k cards returns the first min(n, k)
\* cards of the deck in deck order and leaves the other k - min(n, k) cards
\* in their order; draw() returns the front card and leaves the rest, and on
\* an empty deck returns nothing and leaves the deck empty.
C12_DrawMultiple ==
  [][IF event'.kind = "draw_multiple"
       THEN LET k == Len(deck)
                m == IF event'.arg <= k THEN event'.arg ELSE k
            IN /\ Len(event'.ret) = m
               /\ event'.ret = SubSeq(deck, 1, m)
               /\ Len(deck') = k - m
               /\ deck' = SubSeq(deck, m + 1, k)
       ELSE (event'.kind = "draw") =>
              IF deck = <<>>
                THEN event'.ret = <<>> /\ deck' = <<>>
                ELSE event'.ret = <<deck[1]>>
                     /\ deck' = SubSeq(deck, 2, Len(deck))]_vars

\* a draw_multiple call has asked for more cards than the deck held and got
\* the two or more that were left
C12_Witness ==
  /\ event.kind = "draw_multiple"
  /\ Len(event.ret) >= 2
  /\ Len(event.ret) < event.arg
  /\ deck = <<>>

\* the ranks held exactly 4 times in a list of cards
FullRanks(cards) ==
  {r \in RANKS : Cardinality({i \in 1..Len(cards) : cards[i].rank = r}) = 4}

\* C13: check_for_books removes every card of each rank held exactly 4 times
\* and no other card, returns those ranks, each once, and appends them to the
\* player's books; remove_books removes the same cards, returns them as one
\* book of 4 cards per such rank and leaves the player's books alone; after
\* either no rank is held 4 times.
C13_BookExtraction ==
  [][(event'.kind \in {"check_for_books", "remove_books"}) =>
       LET before == hand[1]
           full == FullRanks(before)
           ret == event'.ret
       IN /\ hand'[1] = SelectSeq(before, LAMBDA c : c.rank \notin full)
          /\ FullRanks(hand'[1]) = {}
          /\ Len(ret) = Cardinality(full)
          /\ IF event'.kind = "check_for_books"
               THEN /\ {ret[i] : i \in 1..Len(ret)} = full
                    /\ books'[1] = books[1] \o ret
               ELSE /\ {ret[i][1].rank : i \in 1..Len(ret)} = full
                    /\ \A i \in 1..Len(ret) :
                         ret[i] = SelectSeq(before,
                                            LAMBDA c : c.rank = ret[i][1].rank)
                    /\ books'[1] = books[1]]_vars

\* check_for_books has just taken a book out of a hand and left cards of
\* another rank in it
C13_Witness ==
  /\ event.kind = "check_for_books"
  /\ Len(event.ret) = 1
  /\ hand[1] # <<>>
  /\ books[1] # <<>>

\* the positions, in a supplied list of names, of the opponents the lone
\* SmartPlayer has recorded as holding the rank it would ask for
RecordedFor(names) ==
  {i \in 1..Len(names) :
     /\ names[i] \in DOMAIN known_cards[1]
     /\ \E r \in choose_rank_to_ask_for("smart", hand[1]) :
          r \in known_cards[1][names[i]]}

\* C11: a SmartPlayer's choose_player_to_ask returns the first opponent, in
\* the order of the supplied list, recorded by update_knowledge as holding
\* the rank the player would ask for, and nothing else; when no supplied
\* opponent is recorded for that rank it returns one of the supplied names,
\* and each of them is a possible result.
C11_SmartChoosesFirstKnown ==
  /\ [][(event'.kind = "choose_player_to_ask" /\ players[1] = "smart") =>
          LET names == event'.arg
              rec == RecordedFor(names)
          IN IF rec # {}
               THEN \A i \in rec :
                      (\A j \in rec : i <= j) => event'.ret = names[i]
               ELSE \E i \in 1..Len(names) : event'.ret = names[i]]_vars
  /\ []((pc = "strategy" /\ players[1] = "smart") =>
          \A names \in PlayerNameLists :
            RecordedFor(names) = {} =>
              \A i \in 1..Len(names) :
                ENABLED (PlayerChoosePlayer /\ event'.arg = names
                           /\ event'.ret = names[i]))

\* two opponents are recorded for the rank the SmartPlayer asks for, and the
\* one returned is the first of the supplied list, which is not the first
\* in the order of the names
C11_Witness ==
  /\ pc = "strategy"
  /\ players[1] = "smart"
  /\ event.kind = "choose_player_to_ask"
  /\ Cardinality(RecordedFor(event.arg)) >= 2
  /\ event.arg[1] > event.arg[2]
  /\ event.ret = event.arg[1]

\* a play_turn call made by the loop of play_game while the game is not over
LiveTurn == pc = "playing" /\ pc' = "playing" /\ ~game_over

\* C14: when the current player has no cards and the deck is empty,
\* play_turn consults no strategy (no opponent and no rank is chosen),
\* leaves the deck, the hands, the books and the knowledge stores as they
\* are, adds one to turn_count and passes the turn to the next player.
C14_SkipHasNoEffect ==
  [][(LiveTurn /\ hand[current_player_idx + 1] = <<>> /\ deck = <<>>) =>
       /\ event'.target = <<>>
       /\ event'.rank = NoRank
       /\ UNCHANGED <<deck, hand, books, known_cards, asked_ranks>>
       /\ turn_count' = turn_count + 1
       /\ current_player_idx' = (current_player_idx + 1) % Len(players)]_vars

\* an empty-handed player has been skipped in a game that goes on
C14_Witness ==
  /\ pc = "playing"
  /\ event.kind = "skip"
  /\ hand[event.asker[1]] = <<>>
  /\ deck = <<>>
  /\ ~game_over

\* C15: when the current player has no cards and the deck is not empty,
\* the player draws the front card of the deck and asks in the same call:
\* an opponent is chosen and the rank asked for is the rank of that card;
\* nothing else is drawn before the ask (a hit leaves the rest of the deck,
\* a miss takes one more card if there is one); the card drawn ends in the
\* player's hand or in a book of the player.
C15_EmptyHandDrawsThenAsks ==
  [][(LiveTurn /\ hand[current_player_idx + 1] = <<>> /\ deck # <<>>) =>
       LET cur == current_player_idx + 1
           rest == SubSeq(deck, 2, Len(deck))
       IN /\ event'.target # <<>>
          /\ event'.rank = deck[1].rank
          /\ deck' = IF WasHit \/ rest = <<>> THEN rest
                      ELSE SubSeq(rest, 2, Len(rest))
          /\ \/ \E i \in 1..Len(hand'[cur]) : hand'[cur][i] = deck[1]
             \/ \E i \in 1..Len(books'[cur]) : books'[cur][i] = deck[1].rank]_vars

\* no card was dealt, and the first player drew one and asked for its rank
C15_Witness ==
  /\ initial_cards = 0
  /\ turn_count = 1
  /\ event.kind \in {"miss", "match"}
  /\ event.asker = <<1>>
  /\ Len(hand[1]) = 2

\* C16: on a miss the hand of the player asked is unchanged; the asker
\* gets the front card of the deck if the deck is not empty and nothing if
\* it is empty (its books are then taken out of its hand); the asker keeps
\* the turn exactly when a card was drawn and has the rank asked for.
C16_MissDrawsOne ==
  [][(LiveTurn /\ Asked /\ ~WasHit) =>
       LET cur == current_player_idx + 1
           target == event'.target[1]
           drawn == IF DeckAtAsk = <<>> THEN <<>> ELSE <<DeckAtAsk[1]>>
           full == HandAtAsk \o drawn
       IN /\ hand'[target] = hand[target]
          /\ deck' = SubSeq(DeckAtAsk, 2, Len(DeckAtAsk))
          /\ hand'[cur] =
               SelectSeq(full, LAMBDA c : CountRank(full, c.rank) # 4)
          /\ (current_player_idx' = current_player_idx)
               <=> (drawn # <<>> /\ drawn[1].rank = event'.rank)]_vars

\* a miss whose draw had another rank than the one asked for: the turn has
\* moved on and the player asked still holds its cards
C16_Witness ==
  /\ event.kind = "miss"
  /\ turn_count >= 2
  /\ deck # <<>>
  /\ hand[event.target[1]] # <<>>
  /\ current_player_idx + 1 # event.asker[1]

\* C17: in a game that was set up, a play_turn call that chooses an
\* opponent also gets a rank from the strategy: the branch "if not rank"
\* (advance the turn without asking) is never taken.
C17_NoRankBranchUnreachable ==
  Dealt =>
    /\ event.kind # "norank"
    /\ (event.kind \in {"hit", "miss", "match"}) <=> (event.target # <<>>)
    /\ (event.target # <<>>) => (event.rank \in RANKS)

\* no card was dealt: the second player came to its turn empty-handed, drew
\* a card and asked for a rank
C17_Witness ==
  /\ initial_cards = 0
  /\ turn_count >= 2
  /\ event.kind \in {"hit", "miss", "match"}
  /\ event.asker = <<2>>
  /\ event.rank \in RANKS

\* C18: in every play_turn call that asks, the asker holds at least one card
\* of the rank asked for at the moment of asking, and the player asked is a
\* player of the game other than the asker, whatever the asker's strategy.
C18_AskIsLegal ==
  [][(LiveTurn /\ event'.target # <<>>) =>
       /\ event'.rank \in RANKS
       /\ \E i \in 1..Len(HandAtAsk) : HandAtAsk[i].rank = event'.rank
       /\ event'.target[1] \in 1..Len(players)
       /\ event'.target[1] # current_player_idx + 1
       /\ event'.asker = <<current_player_idx + 1>>]_vars

\* the third player, a MemoryPlayer, has asked an opponent for a rank
C18_Witness ==
  /\ Len(players) = 3
  /\ event.asker = <<3>>
  /\ players[3] = "memory"
  /\ event.kind \in {"hit", "miss", "match"}
  /\ event.target # <<>>

\* C19 as claimed: at every turn boundary, a rank recorded in a player's
\* known_cards for an opponent is a rank of which that opponent holds at
\* least one card.
C19_KnowledgeIsHeld ==
  Dealt =>
    \A p \in Seats : \A q \in DOMAIN known_cards[p] :
      \A r \in known_cards[p][q] :
        \E i \in 1..Len(hand[q]) : hand[q][i].rank = r

\* the ranks a knowledge store records for an opponent
KnownSet(known, q) == IF q \in DOMAIN known THEN known[q] ELSE {}

\* C20: after a hit on an opponent for a rank the asker's known set for
\* that opponent is what it was plus the rank; after a miss it is what it
\* was minus the rank; the asker's entries for the other opponents and the
\* knowledge stores of the other players are unchanged.
C20_KnowledgeUpdate ==
  [][(LiveTurn /\ Asked) =>
       LET cur == current_player_idx + 1
           target == event'.target[1]
           rank == event'.rank
           before == known_cards[cur]
           after == known_cards'[cur]
       IN /\ target \in DOMAIN after
          /\ after[target] = IF WasHit THEN KnownSet(before, target) \cup {rank}
                              ELSE KnownSet(before, target) \ {rank}
          /\ DOMAIN after = DOMAIN before \cup {target}
          /\ \A q \in DOMAIN before \ {target} : after[q] = before[q]
          /\ \A p \in Seats \ {cur} : known_cards'[p] = known_cards[p]
          /\ asked_ranks' = asked_ranks]_vars

\* the first player hit an opponent (nothing was drawn in its first turn),
\* asked the same opponent again and missed: the rank recorded by the hit
\* has been cleared
C20_Witness ==
  /\ turn_count = 2
  /\ event.kind = "miss"
  /\ event.asker = <<1>>
  /\ initial_cards >= 1
  /\ Len(deck) = DeckSize - initial_cards * Len(players) - 1
  /\ event.target[1] \in DOMAIN known_cards[1]
  /\ known_cards[1][event.target[1]] = {}

\* the opponents handed to choose_player_to_ask when p is the current player
OthersOf(p) == SelectSeq([i \in 1..Len(players) |-> i], LAMBDA q : q # p)

\* C21: the engine never fills a MemoryPlayer's asked_ranks: in every state
\* reached through setup and play_turn every player's asked_ranks dict is
\* empty, and so a MemoryPlayer's choose_player_to_ask, called with its
\* opponents, can return any one of them (the random choice), whatever its
\* hand is.
C21_AskedRanksNeverPopulated ==
  /\ \A p \in DOMAIN asked_ranks : asked_ranks[p] = <<>>
  /\ \A p \in Seats :
       (players[p] = "memory" /\ OthersOf(p) # <<>>) =>
         choose_player_to_ask(players[p], hand[p], known_cards[p],
                              asked_ranks[p], OthersOf(p))
           = random_choice(OthersOf(p))

\* the MemoryPlayer (third seat) has just asked for a rank, after both of
\* its opponents asked for ranks in earlier turns, and remembers none of it
C21_Witness ==
  /\ pc = "playing"
  /\ Len(players) = 3
  /\ players[3] = "memory"
  /\ turn_count >= 3
  /\ event.asker = <<3>>
  /\ event.rank # NoRank
  /\ event.target # <<>>
  /\ asked_ranks[3] = <<>>

\* C22: the game is over as soon as a play_turn call ends with every hand
\* empty, whether or not cards are left in the deck; and once the game is
\* over the deck stays as it is: no card is drawn from it again.
C22_GameOverNeedsNoEmptyDeck ==
  [][IF game_over
       THEN deck' = deck
       ELSE (LiveTurn /\ \A p \in Seats : hand'[p] = <<>>) => game_over']_vars

\* a game that ended with at least half of the cards still in the deck, on
\* which play_game has returned
C22_Witness ==
  /\ pc = "done"
  /\ game_over
  /\ 2 * Len(deck) >= DeckSize
  /\ \A p \in Seats : hand[p] = <<>>

\* position of the first card of a rank in a list of cards holding one
FirstIndex(cards, rank) ==
  CHOOSE i \in 1..Len(cards) :
    /\ cards[i].rank = rank
    /\ \A j \in 1..(i - 1) : cards[j].rank # rank

\* C23: choose_rank_to_ask_for of a SmartPlayer or a MemoryPlayer with cards
\* returns a rank of its hand that no rank outnumbers there, and of the
\* ranks held as many times the one whose first card comes earliest in the
\* hand; with an empty hand it returns None.
C23_MostHeldRankFirstSeen ==
  [][(event'.kind = "choose_rank_to_ask_for"
        /\ players[1] \in {"smart", "memory"}) =>
       IF hand[1] = <<>>
         THEN event'.ret = NoRank
         ELSE /\ event'.ret \in RANKS
              /\ has_rank(hand[1], event'.ret)
              /\ \A r \in RANKS :
                   CountRank(hand[1], r) <= CountRank(hand[1], event'.ret)
              /\ \A r \in RANKS :
                   CountRank(hand[1], r) = CountRank(hand[1], event'.ret) =>
                     FirstIndex(hand[1], event'.ret) <= FirstIndex(hand[1], r)]_vars

\* two ranks are held equally often, the higher rank first, and a
\* MemoryPlayer chose it
C23_Witness ==
  /\ pc = "strategy"
  /\ players[1] = "memory"
  /\ event.kind = "choose_rank_to_ask_for"
  /\ Len(hand[1]) >= 2
  /\ hand[1][1].rank = event.ret
  /\ \E r \in RANKS :
       /\ r < event.ret
       /\ CountRank(hand[1], r) = CountRank(hand[1], event.ret)

\* the most held rank is not the rank of the first card, and a SmartPlayer
\* chose it
C23_WitnessLater ==
  /\ pc = "strategy"
  /\ players[1] = "smart"
  /\ event.kind = "choose_rank_to_ask_for"
  /\ hand[1] # <<>>
  /\ hand[1][1].rank # event.ret

\* C24: setup shuffles the deck and deals from its front in player order:
\* player i (0-based) gets the next min(initial_cards, cards left) cards as
\* one block before player i+1 gets any; each player's books are taken out
\* of their own block (the full ranks go to their books, the rest stays in
\* their hand in the order dealt); the deck keeps what follows the blocks,
\* max(0, deck size - players * initial_cards) cards; current_player_idx
\* and turn_count are 0 and game_over is false.
C24_SetupDealsBlocks ==
  [][(pc = "ready" /\ pc' = "playing") =>
       /\ \E sh \in shuffle(deck) :
            LET n == Len(players)
                block(i) == SubSeq(sh, Min((i - 1) * initial_cards, Len(sh)) + 1,
                                   Min(i * initial_cards, Len(sh)))
                full(i) == {r \in RANKS : CountRank(block(i), r) = BookSize}
            IN /\ \A i \in Seats :
                    /\ Len(block(i)) =
                         Min(initial_cards,
                             Len(sh) - Min((i - 1) * initial_cards, Len(sh)))
                    /\ hand'[i] = SelectSeq(block(i), LAMBDA c : c.rank \notin full(i))
                    /\ {books'[i][j] : j \in 1..Len(books'[i])} = full(i)
                    /\ Len(books'[i]) = Cardinality(full(i))
               /\ deck' = SubSeq(sh, Min(n * initial_cards, Len(sh)) + 1, Len(sh))
       /\ Len(deck) = DeckSize
       /\ Len(deck') = IF DeckSize > Len(players) * initial_cards
                         THEN DeckSize - Len(players) * initial_cards ELSE 0
       /\ current_player_idx' = 0
       /\ turn_count' = 0
       /\ game_over' = FALSE]_vars

\* three players were dealt 4 cards each from 8: the first found a book in
\* its block, the third got nothing, and no turn has been played
C24_Witness ==
  /\ pc = "playing"
  /\ event = NoEvent
  /\ Len(players) = 3
  /\ initial_cards = BookSize
  /\ books[1] # <<>>
  /\ hand[1] = <<>>
  /\ hand[3] = <<>>
  /\ deck = <<>>
  /\ turn_count = 0

\* the deck ran out inside the last player's block: a shorter block
C24_WitnessShort ==
  /\ pc = "playing"
  /\ event = NoEvent
  /\ Len(players) = 3
  /\ Len(hand[3]) > 0
  /\ Len(hand[3]) < initial_cards
  /\ books[3] = <<>>
  /\ deck = <<>>

\* C25: each rank is booked at most once in a game: no rank is twice in the
\* book lists of the players taken together, there are never more books
\* than ranks (13 in the code), and no step makes a player's score smaller.
C25_EachRankBookedOnce ==
  /\ [](/\ \A r \in RANKS : CountBooked(r, Len(players)) <= 1
        /\ SumLen(books, Len(players)) <= NumRanks)
  /\ [][\A p \in Seats : get_score(books'[p]) >= get_score(books[p])]_vars

\* a hit has just completed a book for the asker while another player
\* holds the book of another rank: every rank is booked, each once
C25_Witness ==
  /\ pc = "playing"
  /\ event.kind = "hit"
  /\ \E p \in Seats :
       /\ event.asker = <<p>>
       /\ books[p] # <<>>
       /\ \E q \in Seats \ {p} :
            /\ books[q] # <<>>
            /\ books[q][1] # books[p][1]
  /\ SumLen(books, Len(players)) = NumRanks

\* C26: a play_turn call touches the asker, the player asked and the deck
\* only: the hand, books and knowledge store of every other player are
\* unchanged; the book list of the current player is extended at its end and
\* no other book list changes; no hand but the current player's gains a
\* card; the deck is left as it was but for at most 2 cards taken from its
\* front.
C26_PlayTurnFrame ==
  [][(pc \in {"playing", "done"} /\ pc' = pc) =>
       LET cur == current_player_idx + 1
           touched == {cur} \cup {event'.target[i] : i \in 1..Len(event'.target)}
       IN /\ \A p \in Seats \ touched :
               /\ hand'[p] = hand[p]
               /\ books'[p] = books[p]
               /\ known_cards'[p] = known_cards[p]
          /\ \A p \in Seats \ {cur} :
               /\ books'[p] = books[p]
               /\ \A c \in AllCards :
                    CountCard(hand'[p], c) <= CountCard(hand[p], c)
          /\ Len(books'[cur]) >= Len(books[cur])
          /\ SubSeq(books'[cur], 1, Len(books[cur])) = books[cur]
          /\ \E k \in 0..2 :
               /\ k <= Len(deck)
               /\ deck' = SubSeq(deck, k + 1, Len(deck))]_vars

\* the first turn of a three-player game dealt no cards took two cards off
\* the deck (one for the empty hand, one on the miss) and left the third
\* player as it was
C26_Witness ==
  /\ pc = "playing"
  /\ Len(players) = 3
  /\ initial_cards = 0
  /\ turn_count = 1
  /\ event.asker = <<1>>
  /\ event.kind \in {"miss", "match"}
  /\ Len(deck) = DeckSize - 2

\* a hit between two players of a three-player game, the third holding
\* cards
C26_WitnessHit ==
  /\ pc = "playing"
  /\ Len(players) = 3
  /\ event.kind = "hit"
  /\ \E p \in Seats \ ({event.asker[1]} \cup {event.target[1]}) :
       hand[p] # <<>>

\* What is left to do before the game is over, compared in this order: the
\* cards in the deck; the pairs (player, rank) with the player holding the
\* rank; the ranks recorded in the knowledge stores; the players to be
\* skipped before one with cards is to play.
Measure(d, h, k, idx) ==
  <<Len(d),
    Cardinality({x \in Seats \X RANKS : has_rank(h[x[1]], x[2])}),
    Cardinality({x \in Seats \X Seats \X RANKS :
                   x[2] \in DOMAIN k[x[1]] /\ x[3] \in k[x[1]][x[2]]}),
    IF \A p \in Seats : ~has_cards(h[p]) THEN 0
    ELSE CHOOSE n \in 0..(Len(players) - 1) :
           /\ has_cards(h[((idx + n) % Len(players)) + 1])
           /\ \A m \in 0..(n - 1) : ~has_cards(h[((idx + m) % Len(players)) + 1])>>

LexLess(a, b) ==
  \E i \in 1..Len(a) : a[i] < b[i] /\ \A j \in 1..(i - 1) : a[j] = b[j]

\* a play_turn call that ends the game or leaves less to do
TowardsGameOver ==
  /\ PlayTurnUncounted
  /\ \/ game_over'
     \/ LexLess(Measure(deck', hand', known_cards', current_player_idx'),
                Measure(deck, hand, known_cards, current_player_idx))

\* C27: once the deck is empty, every rank a player holds is also held by
\* another player, so that every player with cards has an opponent and a
\* rank of its own to ask for that is a hit; and a game that is not over can
\* always still end: in every state between two turns of a game not over
\* the strategies allow a play_turn call that ends it or leaves less to do
\* (a measure that cannot decrease for ever).
C27_ProgressPossible ==
  /\ (Dealt /\ deck = <<>>) =>
       /\ \A p \in Seats : \A i \in 1..Len(hand[p]) :
            \E q \in Seats \ {p} : has_rank(hand[q], hand[p][i].rank)
       /\ \A p \in Seats : has_cards(hand[p]) =>
            \E q \in Seats \ {p} : \E r \in get_ranks(hand[p]) :
              has_rank(hand[q], r)
  /\ (pc = "playing" /\ ~game_over) => ENABLED TowardsGameOver

\* three players, the deck used up, turns played, and cards of both ranks
\* still in the hands: the game is not over
C27_Witness ==
  /\ pc = "playing"
  /\ ~game_over
  /\ deck = <<>>
  /\ Len(players) = 3
  /\ event.kind \in {"hit", "miss", "skip"}
  /\ \A r \in RANKS : \E p \in Seats : has_rank(hand[p], r)

====
